---- MODULE Spec2Model ----
(***************************************************************************)
(* Model of the VoiceAssistant React component (src/unnamed/part_000):     *)
(* its state hooks and refs, the mic button, the MediaRecorder capture     *)
(* path, the text-command and feedback submissions and the language        *)
(* effect.  One action per event handler or continuation after an await.   *)
(* Beside it, the RecorderUpload component                                 *)
(* (src/frontend/src/RecorderUpload.jsx) and the shared API client with    *)
(* its login and logout (src/frontend/src/api/axios.js,                    *)
(* src/unnamed/part_001, src/frontend/src/components/Login.jsx).           *)
(*                                                                         *)
(* Texts are sequences of tokens: <<>> is the empty string, " " is a       *)
(* whitespace character, every other token stands for a non-blank piece of *)
(* text.  A falsy string in the JavaScript sense is <<>>.                  *)
(***************************************************************************)
EXTENDS Integers, Sequences, FiniteSets, TLC

VARIABLES
    env,              \* capabilities of the browser (fixed after Init)
    command,          \* useState("")        text field
    response,         \* useState("")        displayed response
    audioUrl,         \* useState("")        playable audio
    actions,          \* useState([])        suggested actions
    history,          \* useState(...)       conversation log
    listening,        \* useState(false)
    uploadStatus,     \* useState("")
    feedbackMessage,  \* useState("")
    feedbackRating,   \* useState(0)
    feedbackStatus,   \* useState("")
    language,         \* useState("pt")
    recognitionRef,   \* useRef(null): id of the bound recognition handle, 0 = null
    mediaRecorderRef, \* useRef(null): id of the session whose recorder it holds, 0 = null
    audioChunksRef,   \* useRef([])
    handles,          \* recognition handles constructed so far
    sessions,         \* one record per startRecording call that reached getUserMedia;
                      \* stoppedBy (the session whose timer stopped the recorder)
                      \* and emitted (the non-empty chunks the recorder itself
                      \* delivered) are bookkeeping of the model
    timers,           \* armed 5 s timers, in the order they were armed
    commands,         \* one record per text submission that sent a request;
                      \* overwritten is bookkeeping of the model
    feedbacks,        \* one record per feedback submission that sent a request
    storage,          \* localStorage["voiceAssistantHistory"]
    doc,              \* document.documentElement: its lang and dir attributes
    probe,            \* one call of t(lang, key): its arguments and its result
    ru,               \* the RecorderUpload component: its hooks, its refs and
                      \* the recorders it has asked for
    auth              \* sessionStorage["access_token"], the requests sent
                      \* through the shared API client and the Login form

vars == <<env, command, response, audioUrl, actions, history, listening,
          uploadStatus, feedbackMessage, feedbackRating, feedbackStatus,
          language, recognitionRef, mediaRecorderRef, audioChunksRef,
          handles, sessions, timers, commands, feedbacks, storage, doc,
          probe, ru, auth>>

-----------------------------------------------------------------------------
(* Bounds of the model *)

\* capture sessions (startRecording calls that reach getUserMedia) in one run
MaxSessions == 2

\* text submissions that send a request in one run
MaxCommands == 1

\* feedback submissions that send a request in one run
MaxFeedbacks == 1

\* number of language selections in one run
MaxSwitches == 1

\* exchanges in the log across reloads of the page
MaxLog == 4

\* Start clicks of the RecorderUpload component in one run
MaxStarts == 2

\* requests sent through the shared API client in one run
MaxRequests == 3

-----------------------------------------------------------------------------
(* Localization: recognitionLangMap, translations, t *)

SupportedLangs == {"pt", "en", "es", "fr", "de", "ar", "ru"}

\* languages the select is driven through in the model
Langs == {"pt", "ar"}

Keys == {"title", "placeholder", "sendText", "speak", "viewHistory",
         "feedbackTitle", "feedbackPlaceholder", "ratingLabel", "sendFeedback",
         "recording", "speakBtn", "responseTitle", "uploading", "uploaded",
         "uploadError", "micNotSupported", "recordingNotSupported",
         "micAccessError", "recognitionNotSupported", "feedbackEmpty",
         "feedbackSent", "feedbackError", "assistantNotAvailable"}

\* tables of which the Russian one lacks a key
translationsWithGap ==
    [l \in SupportedLangs |->
        [k \in IF l = "ru" THEN Keys \ {"feedbackSent"} ELSE Keys |->
            <<l \o ":" \o k>>]]

\* Every one of the seven tables defines every key with a non-empty string;
\* the string of table l under key k is written as the one-token text l:k.
translations == [l \in SupportedLangs |-> [k \in Keys |-> <<l \o ":" \o k>>]]

recognitionLangMap == [l \in SupportedLangs |->
    CASE l = "pt" -> "pt-BR" [] l = "en" -> "en-US" [] l = "es" -> "es-ES"
      [] l = "fr" -> "fr-FR" [] l = "de" -> "de-DE" [] l = "ar" -> "ar-SA"
      [] OTHER -> "ru-RU"]

\* Property names every object literal inherits from Object.prototype, and
\* the value found under them: a function, which is truthy and not a string.
InheritedNames == {"constructor", "toString"}

FunctionValue == <<"[function]">>

\* table[key] of an object literal: its own entry, else an inherited member,
\* else undefined (<<>>)
Member(table, key) ==
    IF key \in DOMAIN table THEN table[key]
    ELSE IF key \in InheritedNames THEN FunctionValue
    ELSE <<>>

\* translations[lang] && translations[lang][key]: a language code that names
\* an inherited member of `translations` finds a function object, whose
\* members are again looked up
OwnEntry(lang, key) ==
    IF lang \in DOMAIN translations THEN Member(translations[lang], key)
    ELSE IF lang \in InheritedNames /\ key \in InheritedNames THEN FunctionValue
    ELSE <<>>

\* (translations[lang] && translations[lang][key]) || translations["en"][key] || key
t(lang, key) ==
    LET own      == OwnEntry(lang, key)
        fallback == Member(translations["en"], key)
    IN  IF own # <<>> THEN own
        ELSE IF fallback # <<>> THEN fallback
        ELSE <<key>>

-----------------------------------------------------------------------------
(* String.prototype.trim on token texts *)

RECURSIVE TrimLeft(_)
TrimLeft(s) == IF s # <<>> /\ Head(s) = " " THEN TrimLeft(Tail(s)) ELSE s

RECURSIVE TrimRight(_)
TrimRight(s) ==
    IF s # <<>> /\ s[Len(s)] = " " THEN TrimRight(SubSeq(s, 1, Len(s) - 1)) ELSE s

\* a trim that removes nothing
TrimNothing(s) == s

\* a trim of the left end only
TrimLeftOnly(s) == TrimLeft(s)

Trim(s) == TrimRight(TrimLeft(s))

\* texts the user types into the command field and the feedback field
Inputs == {<<" ">>, <<" ", "a", " ">>}

-----------------------------------------------------------------------------
(* Replies of the remote endpoints *)

\* the `actions` field of a reply: absent, a keyed mapping, or an ordered list
ActionFields ==
    { [shape |-> "absent", items |-> <<>>],
      [shape |-> "mapping", items |-> << <<"Play", "http://x">> >>],
      [shape |-> "list", items |-> << <<"Play", "http://x">> >>] }

NoActions == [shape |-> "absent", items |-> <<>>]

NoBody == [response |-> <<>>, input |-> <<>>, audio |-> <<>>, status |-> <<>>,
           actions |-> NoActions]

\* parsed JSON bodies of successful replies; an absent string field is <<>>.
\* The complete body, the body with a response and actions only, the body
\* with the transcription and an action list only, and the empty body.
CommandBodies ==
    { [response |-> <<"R">>, input |-> <<"I">>, audio |-> <<"A">>,
       status |-> <<>>,
       actions |-> [shape |-> "mapping", items |-> << <<"Play", "http://x">> >>]],
      [response |-> <<"R">>, input |-> <<>>, audio |-> <<>>, status |-> <<>>,
       actions |-> NoActions],
      [response |-> <<>>, input |-> <<"I">>, audio |-> <<>>, status |-> <<>>,
       actions |-> [shape |-> "list", items |-> << <<"Play", "http://x">> >>]],
      NoBody }

FeedbackBodies == [response : {<<>>}, input : {<<>>}, audio : {<<>>},
                   status : {<<>>, <<"S">>}, actions : {NoActions}]

\* the body sent with a non-success status: diagnostic content of the
\* server, under the field names of a successful reply
ErrorBody ==
    [response |-> <<"D">>, input |-> <<"D">>, audio |-> <<"D">>,
     status |-> <<"D">>,
     actions |-> [shape |-> "mapping", items |-> << <<"D", "http://d">> >>]]

\* kind "ok": success status and a JSON body; "http": non-success status with
\* the body the server sent; "network": fetch rejects (a rejected res.json()
\* reaches the same catch block)
Failures ==
    { [kind |-> "http", status |-> 500, body |-> ErrorBody],
      [kind |-> "network", status |-> 0, body |-> NoBody] }

CommandReplies == [kind : {"ok"}, status : {200}, body : CommandBodies] \cup Failures

FeedbackReplies == [kind : {"ok"}, status : {200}, body : FeedbackBodies] \cup Failures

NoReply == [kind |-> "none", status |-> 0, body |-> NoBody]

\* res.text() of a body: its raw text
BodyText(b) == b.response \o b.input \o b.audio \o b.status

\* the message of the Error the handler's catch receives (it is only logged)
ErrorMessage(r) ==
    CASE r.kind = "http"    -> <<"HTTP", "500", "-">> \o BodyText(r.body)
      [] OTHER              -> <<"Failed to fetch">>

\* the handler without its `if (!res.ok) throw`: only a rejection throws
ThrowsOnRejectionOnly(r) == r.kind = "network"

\* the reply makes the handler throw: `if (!res.ok) throw`, a rejected
\* fetch, a rejected res.json()
Throws(r) == r.kind # "ok"

\* the fixed text of the error exchange
ConnectionError == <<"Erro de conexao com o servidor.">>

\* an entry of the conversation log; `op` names the operation that appended
\* it (bookkeeping of the model, not a field of the program's record)
Exchange(role, text, op) == [role |-> role, text |-> text, op |-> op]

\* Array.isArray(a) ? a : Object.entries(a || {})
NormalizeActions(a) ==
    CASE a.shape = "list"    -> [i \in 1..Len(a.items) |->
                                   [form |-> "object", label |-> a.items[i][1],
                                    url |-> a.items[i][2]]]
      [] a.shape = "mapping" -> [i \in 1..Len(a.items) |->
                                   [form |-> "pair", label |-> a.items[i][1],
                                    url |-> a.items[i][2]]]
      [] OTHER               -> <<>>

\* the links the component renders for the normalized actions: a pair shows
\* its key and its value as they are; an object shows label || "Action n"
\* and url || "#"
RenderLinks(acts) ==
    [i \in 1..Len(acts) |->
        IF acts[i].form = "pair"
        THEN [label |-> acts[i].label, url |-> acts[i].url]
        ELSE [label |-> IF acts[i].label # "" THEN acts[i].label
                        ELSE "Action " \o ToString(i),
              url |-> IF acts[i].url # "" THEN acts[i].url ELSE "#"]]

\* entries of an `actions` field: a label and a URL, "" where the reply has
\* an empty or null value (for a list entry: no such property)
ActionEntries == {<<l, u>> : l \in {"", "Play"}, u \in {"", "http://x"}}

ActionItems ==
    {<<e>> : e \in ActionEntries}
      \cup {<<e1, e2>> : e1 \in ActionEntries, e2 \in ActionEntries}

\* a JSON object has each of its keys once
ActionInputs ==
    {[shape |-> "list", items |-> it] : it \in ActionItems}
      \cup {[shape |-> "mapping", items |-> it] :
               it \in {x \in ActionItems : Len(x) = 2 => x[1][1] # x[2][1]}}

\* successful replies that differ in their `actions` field
ActionReplies ==
    {[kind |-> "ok", status |-> 200,
      body |-> [response |-> <<"R">>, input |-> <<"I">>, audio |-> <<>>,
                status |-> <<>>, actions |-> a]] : a \in ActionInputs}

-----------------------------------------------------------------------------
(* Client-side storage of the conversation log *)

\* JSON.stringify of one {role, text} record, as a run of tokens
StringifyExchange(e) == <<"{", e.role, ":">> \o e.text \o <<"}">>

\* JSON.stringify(history): the records in log order
RECURSIVE Stringify(_)
Stringify(h) ==
    IF h = <<>> THEN <<>> ELSE StringifyExchange(Head(h)) \o Stringify(Tail(h))

\* position of the first closing brace of a serialized text
RECURSIVE CloseAt(_, _)
CloseAt(s, i) == IF i > Len(s) \/ s[i] = "}" THEN i ELSE CloseAt(s, i + 1)

\* JSON.parse of a stored log: the {role, text} records it holds
RECURSIVE ParseHistory(_)
ParseHistory(s) ==
    IF Len(s) < 4 THEN <<>>
    ELSE LET c == CloseAt(s, 4) IN
         <<[role |-> s[2], text |-> SubSeq(s, 4, c - 1)]>>
            \o ParseHistory(SubSeq(s, c + 1, Len(s)))

\* an effect that never writes the log to storage
PersistNothing(old, new, stored) == stored

\* the [history] effect after a render: it runs when the log is a new array
PersistHistory(old, new, stored) ==
    IF new # old THEN Stringify(new) ELSE stored

-----------------------------------------------------------------------------
(* Environments and initial state *)

\* sr: SpeechRecognition exists; md: navigator.mediaDevices.getUserMedia
\* exists; mr: MediaRecorder exists
Envs == { [sr |-> TRUE,  md |-> TRUE,  mr |-> TRUE],
          [sr |-> FALSE, md |-> TRUE,  mr |-> TRUE],
          [sr |-> FALSE, md |-> TRUE,  mr |-> FALSE],
          [sr |-> FALSE, md |-> FALSE, mr |-> TRUE],
          [sr |-> FALSE, md |-> FALSE, mr |-> FALSE] }

NoUrl == [kind |-> "none", ref |-> <<>>, of |-> 0]

\* a document that is left-to-right in every language
AlwaysLeftToRight(lang) == "ltr"

\* document.documentElement.dir of the [language] effect
DocumentDir(lang) == IF lang = "ar" THEN "rtl" ELSE "ltr"

\* document.documentElement.lang of the [language] effect
DocumentLang(lang) == IF lang = "pt" THEN "pt-BR" ELSE lang

\* no call of t is under examination
NoProbe == [lang |-> "", key |-> "", out |-> <<>>, called |-> FALSE]

\* a handle whose lang is the session language itself, not its locale tag
NewHandleUnmapped(lang) ==
    [lang |-> lang, interimResults |-> FALSE, continuous |-> FALSE,
     bound |-> TRUE, active |-> FALSE, startPending |-> FALSE,
     errored |-> FALSE]

\* new SpeechRecognition() with lang, interimResults, continuous and the four
\* callbacks installed; active, startPending and errored (the started
\* recognition has reported an error) are the state of the platform object
NewHandle(lang) ==
    [lang |-> IF lang \in DOMAIN recognitionLangMap
              THEN recognitionLangMap[lang] ELSE lang,
     interimResults |-> FALSE, continuous |-> FALSE,
     bound |-> TRUE, active |-> FALSE, startPending |-> FALSE,
     errored |-> FALSE]

\* RecorderUpload after its first render: useState(false), useState(null),
\* useRef(null), useRef([]); no recorder asked for yet
RecorderUploadMounted ==
    [recording |-> FALSE, response |-> 0, mediaRecorderRef |-> 0,
     chunksRef |-> <<>>, recorders |-> <<>>]

\* sessionStorage.getItem of a key that is not stored: null
NoToken == ""

\* an empty session storage, no request sent, and the Login form after its
\* first render: useState(null) error, useState(false) loading
ClientMounted ==
    [access_token |-> NoToken, requests |-> <<>>, loading |-> FALSE,
     error |-> ""]

\* the component after its first render and the effects of that render
Mounted ==
    /\ env \in Envs
    /\ command = <<>>
    /\ response = <<>>
    /\ audioUrl = NoUrl
    /\ actions = <<>>
    /\ history = <<>>
    /\ listening = FALSE
    /\ uploadStatus = ""
    /\ feedbackMessage = <<>>
    /\ feedbackRating = 0
    /\ feedbackStatus = <<>>
    /\ language = "pt"
    /\ handles = IF env.sr THEN <<NewHandle("pt")>> ELSE <<>>
    /\ recognitionRef = IF env.sr THEN 1 ELSE 0
    /\ mediaRecorderRef = 0
    /\ audioChunksRef = <<>>
    /\ sessions = <<>>
    /\ timers = <<>>
    /\ commands = <<>>
    /\ feedbacks = <<>>
    /\ storage = Stringify(history)
    /\ doc = [lang |-> DocumentLang(language), dir |-> DocumentDir(language)]
    /\ ru = RecorderUploadMounted
    /\ auth = ClientMounted

Init == Mounted /\ probe = NoProbe

-----------------------------------------------------------------------------
(* Text submission: handleSendCommand *)

TypeCommand(c) ==
    /\ command' = c
    /\ UNCHANGED <<env, ru, auth, storage, doc, probe, response, audioUrl, actions, history, listening,
                   uploadStatus, feedbackMessage, feedbackRating,
                   feedbackStatus, language, recognitionRef, mediaRecorderRef,
                   audioChunksRef, handles, sessions, timers, commands,
                   feedbacks>>

\* up to the await of fetch
SendCommand ==
    LET text == Trim(command)
        id   == Len(commands) + 1
    IN  IF text = <<>>
        THEN UNCHANGED vars
        ELSE /\ Len(commands) < MaxCommands
             /\ history' = Append(history, Exchange("user", text, <<"text", id>>))
             /\ response' = <<>>
             /\ audioUrl' = NoUrl
             /\ commands' = Append(commands,
                    [text |-> text, lang |-> language, phase |-> "sent",
                     reply |-> NoReply, overwritten |-> <<>>])
             /\ storage' = PersistHistory(history, history', storage)
             /\ UNCHANGED <<env, ru, auth, doc, probe, command, actions, listening, uploadStatus,
                            feedbackMessage, feedbackRating, feedbackStatus,
                            language, recognitionRef, mediaRecorderRef,
                            audioChunksRef, handles, sessions, timers,
                            feedbacks>>

\* a catch block that displays the message of the error it caught
CaughtMessageText(lang, r) == ErrorMessage(r)

\* what the text submission displays when the reply makes it throw
CommandFailureText(lang, r) == t(lang, "assistantNotAvailable")

\* a catch block that appends nothing to the log
SilentFailureLog(h, id) == h

\* the log after the catch block of handleSendCommand
CommandFailureLog(h, id) ==
    Append(h, Exchange("error", ConnectionError, <<"text", id>>))

\* the log after a successful reply to a text submission
CommandSuccessLog(h, id, lang, body) ==
    Append(h, Exchange("assistant",
                       IF body.response # <<>> THEN body.response
                       ELSE t(lang, "assistantNotAvailable"),
                       <<"text", id>>))

\* a text handler that keeps the actions it shows when the reply has none
KeepShownWhenAbsent(shown, field) ==
    IF field.shape # "absent" THEN NormalizeActions(field) ELSE shown

\* the actions shown after a successful text reply: setActions(...) with
\* the normalized field, an absent field counting as {}
TextActions(shown, field) == NormalizeActions(field)

\* a handler without its finally block
FieldKept(field) == field

\* the command field after the finally block: setCommand("")
AfterFinally(field) == <<>>

\* the continuation after the await, with the catch and finally blocks;
\* `overwritten` (what the field held when the finally block emptied it) is
\* bookkeeping of the model
CommandReply(id, r) ==
    /\ id \in 1..Len(commands)
    /\ commands[id].phase = "sent"
    /\ LET c == commands[id] IN
       IF Throws(r)
       THEN /\ response' = CommandFailureText(c.lang, r)
            /\ history' = CommandFailureLog(history, id)
            /\ commands' = [commands EXCEPT ![id].phase = "failed",
                                            ![id].reply = r,
                                            ![id].overwritten = command]
            /\ UNCHANGED <<audioUrl, actions>>
       ELSE /\ response' = IF r.body.response # <<>> THEN r.body.response
                           ELSE t(c.lang, "assistantNotAvailable")
            /\ audioUrl' = IF r.body.audio # <<>>
                           THEN [kind |-> "remote", ref |-> r.body.audio, of |-> 0]
                           ELSE NoUrl
            /\ actions' = TextActions(actions, r.body.actions)
            /\ history' = CommandSuccessLog(history, id, c.lang, r.body)
            /\ commands' = [commands EXCEPT ![id].phase = "done",
                                            ![id].reply = r,
                                            ![id].overwritten = command]
    /\ command' = AfterFinally(command)
    /\ storage' = PersistHistory(history, history', storage)
    /\ UNCHANGED <<env, ru, auth, doc, probe, listening, uploadStatus, feedbackMessage,
                   feedbackRating, feedbackStatus, language, recognitionRef,
                   mediaRecorderRef, audioChunksRef, handles, sessions, timers,
                   feedbacks>>

-----------------------------------------------------------------------------
(* Native recognition: the handle bound by the language effect *)

\* recognition.start() of startLocalRecognition; starting a handle that is
\* already started throws, which the catch reports
StartLocalRecognition ==
    LET h == recognitionRef IN
    IF h = 0 \/ handles[h].active
    THEN /\ response' = t(language, "recognitionNotSupported")
         /\ UNCHANGED <<env, ru, auth, storage, doc, probe, command, audioUrl, actions, history, listening,
                        uploadStatus, feedbackMessage, feedbackRating,
                        feedbackStatus, language, recognitionRef,
                        mediaRecorderRef, audioChunksRef, handles, sessions,
                        timers, commands, feedbacks>>
    ELSE /\ handles' = [handles EXCEPT ![h].active = TRUE,
                                       ![h].startPending = TRUE,
                                       ![h].errored = FALSE]
         /\ UNCHANGED <<env, ru, auth, storage, doc, probe, command, response, audioUrl, actions, history,
                        listening, uploadStatus, feedbackMessage,
                        feedbackRating, feedbackStatus, language,
                        recognitionRef, mediaRecorderRef, audioChunksRef,
                        sessions, timers, commands, feedbacks>>

\* the start event of a started handle: onstart, when still installed
RecognitionStart(h) ==
    /\ h \in 1..Len(handles)
    /\ handles[h].startPending
    /\ handles' = [handles EXCEPT ![h].startPending = FALSE]
    /\ listening' = IF handles[h].bound THEN TRUE ELSE listening
    /\ UNCHANGED <<env, ru, auth, storage, doc, probe, command, response, audioUrl, actions, history,
                   uploadStatus, feedbackMessage, feedbackRating,
                   feedbackStatus, language, recognitionRef, mediaRecorderRef,
                   audioChunksRef, sessions, timers, commands, feedbacks>>

\* an onresult that stores the transcript whatever it is
StoreTranscript(field, transcript) == transcript

\* the command field after onresult: `if (text) setCommand(text)`
OnResult(field, transcript) == IF transcript # <<>> THEN transcript ELSE field

\* the result event: onresult, when still installed, with the top transcript
\* of the first result
RecognitionResult(h, transcript) ==
    /\ h \in 1..Len(handles)
    /\ handles[h].active /\ ~handles[h].startPending
    /\ command' = IF handles[h].bound THEN OnResult(command, transcript)
                  ELSE command
    /\ UNCHANGED <<env, ru, auth, storage, doc, probe, response, audioUrl, actions, history, listening,
                   uploadStatus, feedbackMessage, feedbackRating,
                   feedbackStatus, language, recognitionRef, mediaRecorderRef,
                   audioChunksRef, handles, sessions, timers, commands,
                   feedbacks>>

\* the error event of a started recognition: onerror, when still installed
RecognitionError(h) ==
    /\ h \in 1..Len(handles)
    /\ handles[h].active /\ ~handles[h].startPending /\ ~handles[h].errored
    /\ handles' = [handles EXCEPT ![h].errored = TRUE]
    /\ listening' = IF handles[h].bound THEN FALSE ELSE listening
    /\ UNCHANGED <<env, ru, auth, storage, doc, probe, command, response, audioUrl, actions, history,
                   uploadStatus, feedbackMessage, feedbackRating,
                   feedbackStatus, language, recognitionRef, mediaRecorderRef,
                   audioChunksRef, sessions, timers, commands, feedbacks>>

\* the end event, which closes a started recognition: onend
RecognitionEnd(h) ==
    /\ h \in 1..Len(handles)
    /\ handles[h].active /\ ~handles[h].startPending
    /\ handles' = [handles EXCEPT ![h].active = FALSE]
    /\ listening' = IF handles[h].bound THEN FALSE ELSE listening
    /\ UNCHANGED <<env, ru, auth, storage, doc, probe, command, response, audioUrl, actions, history,
                   uploadStatus, feedbackMessage, feedbackRating,
                   feedbackStatus, language, recognitionRef, mediaRecorderRef,
                   audioChunksRef, sessions, timers, commands, feedbacks>>

\* a [language] effect without the cleanup of its previous run
SelectLanguageNoCleanup(l) ==
    /\ l # language
    /\ language' = l
    /\ IF env.sr
       THEN /\ Len(handles) <= MaxSwitches
            /\ handles' = Append(handles, NewHandle(l))
            /\ recognitionRef' = Len(handles) + 1
       ELSE /\ recognitionRef' = 0
            /\ UNCHANGED handles
    /\ doc' = [lang |-> DocumentLang(l), dir |-> DocumentDir(l)]
    /\ UNCHANGED <<env, ru, auth, storage, probe, command, response, audioUrl, actions, history,
                   listening, uploadStatus, feedbackMessage, feedbackRating,
                   feedbackStatus, mediaRecorderRef, audioChunksRef, sessions,
                   timers, commands, feedbacks>>

\* the select's onChange and the run of the [language] effect it causes:
\* cleanup of the previous run, then a new handle when the capability exists
SelectLanguage(l) ==
    /\ l # language
    /\ language' = l
    /\ IF env.sr
       THEN /\ Len(handles) <= MaxSwitches
            /\ handles' = Append([handles EXCEPT ![recognitionRef].bound = FALSE],
                                 NewHandle(l))
            /\ recognitionRef' = Len(handles) + 1
       ELSE /\ recognitionRef' = 0
            /\ UNCHANGED handles
    /\ doc' = [lang |-> DocumentLang(l), dir |-> DocumentDir(l)]
    /\ UNCHANGED <<env, ru, auth, storage, probe, command, response, audioUrl, actions, history,
                   listening, uploadStatus, feedbackMessage, feedbackRating,
                   feedbackStatus, mediaRecorderRef, audioChunksRef, sessions,
                   timers, commands, feedbacks>>

-----------------------------------------------------------------------------
(* Media recording: startRecording and the callbacks of its recorder *)

NoPayload == [chunks |-> <<>>, type |-> "", lang |-> ""]

\* a recorder whose state never reads inactive
RecorderNeverInactive(s) == "recording"

\* the state of the MediaRecorder of session s
RecorderState(s) == IF sessions[s].phase = "recording" THEN "recording" ELSE "inactive"

\* startRecording up to the await of getUserMedia
StartRecording ==
    /\ audioChunksRef' = <<>>
    /\ uploadStatus' = "idle"
    /\ IF ~env.md
       THEN /\ response' = t(language, "micNotSupported")
            /\ UNCHANGED sessions
       ELSE IF ~env.mr
       THEN /\ response' = t(language, "recordingNotSupported")
            /\ UNCHANGED sessions
       ELSE /\ Len(sessions) < MaxSessions
            /\ response' = <<>>
            /\ sessions' = Append(sessions,
                   [lang |-> language, phase |-> "acquiring", mime |-> "",
                    startPending |-> FALSE, stoppedBy |-> 0,
                    emitted |-> <<>>, payload |-> NoPayload,
                    reply |-> NoReply])
    /\ UNCHANGED <<env, ru, auth, storage, doc, probe, command, audioUrl, actions, history, listening,
                   feedbackMessage, feedbackRating, feedbackStatus, language,
                   recognitionRef, mediaRecorderRef, handles, timers, commands,
                   feedbacks>>

\* a mic button that only knows native recognition
MicClickRecognitionOnly == StartLocalRecognition

\* the mic button's onClick
MicClick ==
    IF recognitionRef # 0 THEN StartLocalRecognition ELSE StartRecording

\* outcomes of the await and of the two constructor attempts: the device is
\* refused; a recorder with the opus options; a recorder without options,
\* of the platform's default type; no recorder at all
Outcomes == {"denied", "opus", "default", "noRecorder"}

MimeOf(outcome) == IF outcome = "opus" THEN "audio/webm;codecs=opus" ELSE "audio/ogg"

\* a failing acquisition that displays nothing
AcquireFailureSilent(lang, outcome) == <<>>

\* what startRecording displays when the device is refused (the outer catch)
\* and when both constructor attempts throw (the inner catch)
AcquireFailureText(lang, outcome) ==
    IF outcome = "denied" THEN t(lang, "micAccessError")
    ELSE t(lang, "recordingNotSupported")

\* the continuation of startRecording after the await: the constructor, the
\* callbacks, recorder.start() and the 5 s timer, or the catch block
GetUserMediaSettles(s, outcome) ==
    /\ s \in 1..Len(sessions)
    /\ sessions[s].phase = "acquiring"
    /\ IF outcome = "denied"
       THEN /\ response' = AcquireFailureText(sessions[s].lang, outcome)
            /\ sessions' = [sessions EXCEPT ![s].phase = "denied"]
            /\ UNCHANGED <<mediaRecorderRef, timers>>
       ELSE IF outcome = "noRecorder"
       THEN /\ response' = AcquireFailureText(sessions[s].lang, outcome)
            /\ sessions' = [sessions EXCEPT ![s].phase = "noRecorder"]
            /\ UNCHANGED <<mediaRecorderRef, timers>>
       ELSE /\ mediaRecorderRef' = s
            /\ sessions' = [sessions EXCEPT ![s].phase = "recording",
                                            ![s].mime = MimeOf(outcome),
                                            ![s].startPending = TRUE]
            /\ timers' = Append(timers, s)
            /\ UNCHANGED response
    /\ UNCHANGED <<env, ru, auth, storage, doc, probe, command, audioUrl, actions, history, listening,
                   uploadStatus, feedbackMessage, feedbackRating,
                   feedbackStatus, language, recognitionRef, audioChunksRef,
                   handles, commands, feedbacks>>

\* the start event of the recorder: recorder.onstart
RecorderStart(s) ==
    /\ s \in 1..Len(sessions)
    /\ sessions[s].startPending
    /\ sessions' = [sessions EXCEPT ![s].startPending = FALSE]
    /\ listening' = TRUE
    /\ uploadStatus' = "idle"
    /\ UNCHANGED <<env, ru, auth, storage, doc, probe, command, response, audioUrl, actions, history,
                   feedbackMessage, feedbackRating, feedbackStatus, language,
                   recognitionRef, mediaRecorderRef, audioChunksRef, handles,
                   timers, commands, feedbacks>>

\* the recorder the callback of the timer armed by session s stops
TimerTarget(s) == mediaRecorderRef

\* the 5 s timer of the session at the head of the timer queue fires; timers
\* of equal delay fire in the order they were armed, and long after the start
\* event of their own recorder
CeilingTimer ==
    /\ timers # <<>>
    /\ ~sessions[Head(timers)].startPending
    /\ timers' = Tail(timers)
    /\ LET target == TimerTarget(Head(timers)) IN
       IF target # 0 /\ RecorderState(target) # "inactive"
       THEN sessions' = [sessions EXCEPT ![target].phase = "stopping",
                                         ![target].stoppedBy = Head(timers)]
       ELSE UNCHANGED sessions
    /\ UNCHANGED <<env, ru, auth, storage, doc, probe, command, response, audioUrl, actions, history,
                   listening, uploadStatus, feedbackMessage, feedbackRating,
                   feedbackStatus, language, recognitionRef, mediaRecorderRef,
                   audioChunksRef, handles, commands, feedbacks>>

\* the platform ends a recording by itself: with an error event
\* (recorder.onerror), or because the tracks of its stream ended
RecorderEnds(s, withError) ==
    /\ s \in 1..Len(sessions)
    /\ sessions[s].phase = "recording"
    /\ ~sessions[s].startPending
    /\ sessions' = [sessions EXCEPT ![s].phase = "stopping"]
    /\ IF withError
       THEN /\ response' = t(sessions[s].lang, "uploadError")
            /\ listening' = FALSE
       ELSE UNCHANGED <<response, listening>>
    /\ UNCHANGED <<env, ru, auth, storage, doc, probe, command, audioUrl, actions, history, uploadStatus,
                   feedbackMessage, feedbackRating, feedbackStatus, language,
                   recognitionRef, mediaRecorderRef, audioChunksRef, handles,
                   timers, commands, feedbacks>>

\* recorder.ondataavailable: the buffer after the event
DataAvailable(buffer, chunk) ==
    IF chunk.size > 0 THEN Append(buffer, chunk) ELSE buffer

\* new Blob(chunks, {type: chunks[0]?.type || "audio/webm"}) with the lang
\* form field
MakePayload(chunks, lang) ==
    [chunks |-> chunks,
     type |-> IF chunks # <<>> /\ chunks[1].type # "" THEN chunks[1].type
              ELSE "audio/webm",
     lang |-> lang]

\* a stop callback that creates no object URL
NoLocalUrl(s) == NoUrl

\* URL.createObjectURL(blob) of the recording of session s
LocalUrl(s) == [kind |-> "local", ref |-> <<>>, of |-> s]

\* a stop callback that reads the language selected when it runs
CurrentLanguage(s) == language

\* the `language` recorder.onstop reads: the one of the render whose click
\* called startRecording
ClosureLanguage(s) == sessions[s].lang

\* a stopped recorder delivers its data and its stop event in one task:
\* recorder.ondataavailable, then recorder.onstop up to the await of fetch
RecorderStop(s, size) ==
    /\ s \in 1..Len(sessions)
    /\ sessions[s].phase = "stopping"
    /\ ~sessions[s].startPending
    /\ LET chunk  == [size |-> size, type |-> sessions[s].mime, data |-> s]
           buffer == DataAvailable(audioChunksRef, chunk)
       IN  /\ audioChunksRef' = buffer
           /\ sessions' = [sessions EXCEPT
                  ![s].phase = "uploading",
                  ![s].emitted = DataAvailable(<<>>, chunk),
                  ![s].payload = MakePayload(buffer, ClosureLanguage(s))]
    /\ listening' = FALSE
    /\ audioUrl' = LocalUrl(s)
    /\ uploadStatus' = "uploading"
    /\ UNCHANGED <<env, ru, auth, storage, doc, probe, command, response, actions, history, feedbackMessage,
                   feedbackRating, feedbackStatus, language, recognitionRef,
                   mediaRecorderRef, handles, timers, commands, feedbacks>>

\* what the audio upload displays when the reply makes it throw
UploadFailureText(lang, r) == t(lang, "uploadError")

\* a catch block that replaces the log by the error exchange
UploadFailureResetsLog(h, s) ==
    <<Exchange("error", ConnectionError, <<"audio", s>>)>>

\* the log after the catch block of recorder.onstop
UploadFailureLog(h, s) ==
    Append(h, Exchange("error", ConnectionError, <<"audio", s>>))

\* the log after a successful reply to an audio upload
UploadSuccessLog(h, s, body) ==
    LET h1 == IF body.response # <<>>
              THEN Append(h, Exchange("assistant", body.response, <<"audio", s>>))
              ELSE h
    IN  IF body.input # <<>>
        THEN Append(h1, Exchange("user", body.input, <<"audio", s>>))
        ELSE h1

\* the actions shown after a successful audio reply:
\* if (data.actions) setActions(...)
AudioActions(shown, field) ==
    IF field.shape # "absent" THEN NormalizeActions(field) ELSE shown

\* the continuation of recorder.onstop after the await, with its catch block
UploadReply(s, r) ==
    /\ s \in 1..Len(sessions)
    /\ sessions[s].phase = "uploading"
    /\ IF Throws(r)
       THEN /\ uploadStatus' = "error"
            /\ response' = UploadFailureText(sessions[s].lang, r)
            /\ history' = UploadFailureLog(history, s)
            /\ sessions' = [sessions EXCEPT ![s].phase = "error", ![s].reply = r]
            /\ UNCHANGED <<audioUrl, actions>>
       ELSE /\ audioUrl' = IF r.body.audio # <<>>
                           THEN [kind |-> "remote", ref |-> r.body.audio, of |-> 0]
                           ELSE audioUrl
            /\ response' = IF r.body.response # <<>> THEN r.body.response
                           ELSE response
            /\ history' = UploadSuccessLog(history, s, r.body)
            /\ actions' = AudioActions(actions, r.body.actions)
            /\ uploadStatus' = "done"
            /\ sessions' = [sessions EXCEPT ![s].phase = "done", ![s].reply = r]
    /\ storage' = PersistHistory(history, history', storage)
    /\ UNCHANGED <<env, ru, auth, doc, probe, command, listening, feedbackMessage, feedbackRating,
                   feedbackStatus, language, recognitionRef, mediaRecorderRef,
                   audioChunksRef, handles, timers, commands, feedbacks>>

-----------------------------------------------------------------------------
(* Feedback submission: handleSendFeedback *)

\* ratings the select is driven through in the model
Ratings == {0, 5}

TypeFeedback(m) ==
    /\ feedbackMessage' = m
    /\ UNCHANGED <<env, ru, auth, storage, doc, probe, command, response, audioUrl, actions, history,
                   listening, uploadStatus, feedbackRating, feedbackStatus,
                   language, recognitionRef, mediaRecorderRef, audioChunksRef,
                   handles, sessions, timers, commands, feedbacks>>

SelectRating(n) ==
    /\ feedbackRating' = n
    /\ UNCHANGED <<env, ru, auth, storage, doc, probe, command, response, audioUrl, actions, history,
                   listening, uploadStatus, feedbackMessage, feedbackStatus,
                   language, recognitionRef, mediaRecorderRef, audioChunksRef,
                   handles, sessions, timers, commands, feedbacks>>

\* up to the await of fetch
SendFeedback ==
    IF Trim(feedbackMessage) = <<>>
    THEN /\ feedbackStatus' = t(language, "feedbackEmpty")
         /\ UNCHANGED <<env, ru, auth, storage, doc, probe, command, response, audioUrl, actions, history,
                        listening, uploadStatus, feedbackMessage,
                        feedbackRating, language, recognitionRef,
                        mediaRecorderRef, audioChunksRef, handles, sessions,
                        timers, commands, feedbacks>>
    ELSE /\ Len(feedbacks) < MaxFeedbacks
         /\ feedbacks' = Append(feedbacks,
                [user |-> "Rogerio", message |-> feedbackMessage,
                 rating |-> feedbackRating, lang |-> language,
                 phase |-> "sent", reply |-> NoReply])
         /\ UNCHANGED <<env, ru, auth, storage, doc, probe, command, response, audioUrl, actions, history,
                        listening, uploadStatus, feedbackMessage,
                        feedbackRating, feedbackStatus, language,
                        recognitionRef, mediaRecorderRef, audioChunksRef,
                        handles, sessions, timers, commands>>

\* a catch block that displays nothing
FeedbackFailureSilent(lang, r) == <<>>

\* what the feedback submission displays when the reply makes it throw
FeedbackFailureText(lang, r) == t(lang, "feedbackError")

\* a feedback continuation that shows its outcome as the assistant's response
FeedbackReplyShown(id, r) ==
    /\ id \in 1..Len(feedbacks)
    /\ feedbacks[id].phase = "sent"
    /\ feedbackStatus' = IF Throws(r) THEN FeedbackFailureText(feedbacks[id].lang, r)
                         ELSE t(feedbacks[id].lang, "feedbackSent")
    /\ response' = feedbackStatus'
    /\ feedbacks' = [feedbacks EXCEPT
           ![id].phase = IF Throws(r) THEN "failed" ELSE "done",
           ![id].reply = r]
    /\ UNCHANGED <<env, ru, auth, storage, doc, probe, command, audioUrl, actions,
                   history, listening, uploadStatus, feedbackMessage,
                   feedbackRating, language, recognitionRef, mediaRecorderRef,
                   audioChunksRef, handles, sessions, timers, commands>>

\* the continuation after the await, with the catch block
FeedbackReply(id, r) ==
    /\ id \in 1..Len(feedbacks)
    /\ feedbacks[id].phase = "sent"
    /\ IF Throws(r)
       THEN /\ feedbackStatus' = FeedbackFailureText(feedbacks[id].lang, r)
            /\ feedbacks' = [feedbacks EXCEPT ![id].phase = "failed",
                                              ![id].reply = r]
            /\ UNCHANGED <<feedbackMessage, feedbackRating>>
       ELSE /\ feedbackStatus' = IF r.body.status # <<>> THEN r.body.status
                                 ELSE t(feedbacks[id].lang, "feedbackSent")
            /\ feedbackMessage' = <<>>
            /\ feedbackRating' = 0
            /\ feedbacks' = [feedbacks EXCEPT ![id].phase = "done",
                                              ![id].reply = r]
    /\ UNCHANGED <<env, ru, auth, storage, doc, probe, command, response, audioUrl, actions, history,
                   listening, uploadStatus, language, recognitionRef,
                   mediaRecorderRef, audioChunksRef, handles, sessions, timers,
                   commands>>

-----------------------------------------------------------------------------
(* Reload of the page: the component is constructed again *)

\* an initializer that ignores what is stored
RestoreNothing(stored) == <<>>

\* the useState initializer of history: saved ? JSON.parse(saved) : []
Restore(stored) ==
    IF stored = <<>> THEN <<>>
    ELSE LET r == ParseHistory(stored) IN
         [i \in 1..Len(r) |-> Exchange(r[i].role, r[i].text, <<"stored", 0>>)]

\* the page is loaded again in the same browser: requests, recorders and
\* timers of the previous page are gone, every hook starts from its initial
\* value, the log from storage, and the effects of the first render run
\* (RecorderUpload and Login are not part of that page)
Reload ==
    /\ history' = Restore(storage)
    /\ storage' = Stringify(history')
    /\ command' = <<>>
    /\ response' = <<>>
    /\ audioUrl' = NoUrl
    /\ actions' = <<>>
    /\ listening' = FALSE
    /\ uploadStatus' = ""
    /\ feedbackMessage' = <<>>
    /\ feedbackRating' = 0
    /\ feedbackStatus' = <<>>
    /\ language' = "pt"
    /\ handles' = IF env.sr THEN <<NewHandle("pt")>> ELSE <<>>
    /\ recognitionRef' = IF env.sr THEN 1 ELSE 0
    /\ mediaRecorderRef' = 0
    /\ audioChunksRef' = <<>>
    /\ sessions' = <<>>
    /\ timers' = <<>>
    /\ commands' = <<>>
    /\ feedbacks' = <<>>
    /\ doc' = [lang |-> DocumentLang("pt"), dir |-> DocumentDir("pt")]
    /\ UNCHANGED <<env, ru, auth, probe>>

-----------------------------------------------------------------------------
(* The RecorderUpload component: start and stopAndSend *)

\* what the other components hold
AssistantState ==
    <<env, command, response, audioUrl, actions, history, listening,
      uploadStatus, feedbackMessage, feedbackRating, feedbackStatus,
      language, recognitionRef, mediaRecorderRef, audioChunksRef, handles,
      sessions, timers, commands, feedbacks, storage, doc, probe>>

\* the Start button's onClick, enabled while `recording` is false: start up
\* to the await of getUserMedia
start ==
    /\ ~ru.recording
    /\ Len(ru.recorders) < MaxStarts
    /\ ru' = [ru EXCEPT !.recorders =
                 Append(@, [phase |-> "acquiring", payload |-> <<>>])]
    /\ UNCHANGED <<AssistantState, auth>>

\* the continuation of the start call k after the await: the recorder is
\* constructed, stored in the ref and started; a refused device rejects the
\* promise of start, which nothing handles
startResumes(k, granted) ==
    /\ k \in 1..Len(ru.recorders)
    /\ ru.recorders[k].phase = "acquiring"
    /\ IF granted
       THEN ru' = [ru EXCEPT !.recorders[k].phase = "recording",
                             !.mediaRecorderRef = k,
                             !.chunksRef = <<>>,
                             !.recording = TRUE]
       ELSE ru' = [ru EXCEPT !.recorders[k].phase = "refused"]
    /\ UNCHANGED <<AssistantState, auth>>

\* the Stop & Send button's onClick, enabled while `recording` is true:
\* stopAndSend up to the await of the stop event
stopAndSend ==
    /\ ru.recording
    /\ LET mr == ru.mediaRecorderRef IN
       IF mr = 0 THEN UNCHANGED ru
       ELSE ru' = [ru EXCEPT !.recorders[mr].phase = "stopping",
                             !.recording = FALSE]
    /\ UNCHANGED <<AssistantState, auth>>

\* the stopped recorder k delivers its data (ondataavailable pushes it to
\* the current chunk buffer) and its stop event; stopAndSend resumes, builds
\* the blob from the buffer and awaits the fetch
stopAndSendResumes(k) ==
    /\ k \in 1..Len(ru.recorders)
    /\ ru.recorders[k].phase = "stopping"
    /\ LET buffer == Append(ru.chunksRef, k) IN
       ru' = [ru EXCEPT !.chunksRef = buffer,
                        !.recorders[k].phase = "uploading",
                        !.recorders[k].payload = buffer]
    /\ UNCHANGED <<AssistantState, auth>>

\* the fetch of upload k settles: setResponse(data), or a rejection that
\* nothing handles
stopAndSendReply(k, ok) ==
    /\ k \in 1..Len(ru.recorders)
    /\ ru.recorders[k].phase = "uploading"
    /\ IF ok
       THEN ru' = [ru EXCEPT !.recorders[k].phase = "done", !.response = k]
       ELSE ru' = [ru EXCEPT !.recorders[k].phase = "failed"]
    /\ UNCHANGED <<AssistantState, auth>>

NextRecorderUpload ==
    \/ start
    \/ \E k \in 1..MaxStarts, granted \in BOOLEAN : startResumes(k, granted)
    \/ stopAndSend
    \/ \E k \in 1..MaxStarts : stopAndSendResumes(k)
    \/ \E k \in 1..MaxStarts, ok \in BOOLEAN : stopAndSendReply(k, ok)

-----------------------------------------------------------------------------
(* The shared API client: request interceptor, login, logout, Login form *)

\* access tokens the login endpoint issues
Tokens == {"t1", "t2"}

\* no Authorization header
NoHeader == ""

\* an interceptor that never attaches a header
InterceptorIdle(stored) == NoHeader

\* the Authorization header the request interceptor leaves on a request:
\* `Bearer ${token}` when getItem("access_token") is truthy
RequestInterceptor(stored) ==
    IF stored # NoToken THEN "Bearer " \o stored ELSE NoHeader

\* api.get / api.post: the request as it leaves the interceptor
ApiRequest(path, by) ==
    [path |-> path, by |-> by,
     Authorization |-> RequestInterceptor(auth.access_token),
     phase |-> "sent", token |-> NoToken]

\* login(username, password) up to the await of api.post
login ==
    /\ Len(auth.requests) < MaxRequests
    /\ auth' = [auth EXCEPT !.requests = Append(@, ApiRequest("/auth/login", "login"))]
    /\ UNCHANGED <<AssistantState, ru>>

\* the Login form's onSubmit, its button enabled while `loading` is false:
\* handleSubmit up to the await of api.post
handleSubmit ==
    /\ ~auth.loading
    /\ Len(auth.requests) < MaxRequests
    /\ auth' = [auth EXCEPT
           !.requests = Append(@, ApiRequest("/auth/login", "handleSubmit")),
           !.error = "",
           !.loading = TRUE]
    /\ UNCHANGED <<AssistantState, ru>>

\* the mount effect of ProtectedData: api.get("/protected/data")
ProtectedData ==
    /\ Len(auth.requests) < MaxRequests
    /\ auth' = [auth EXCEPT
           !.requests = Append(@, ApiRequest("/protected/data", "ProtectedData"))]
    /\ UNCHANGED <<AssistantState, ru>>

\* replies of the login endpoint: a success with the token it issues, or a
\* failure (non-success status or network error), on which api.post rejects
LoginReplies ==
    {[ok |-> TRUE, token |-> tk] : tk \in Tokens}
      \cup {[ok |-> FALSE, token |-> NoToken]}

\* the stored token after the continuation of a login:
\* sessionStorage.setItem("access_token", res.data.access_token) on success
StoreToken(stored, r) == IF r.ok THEN r.token ELSE stored

\* the continuation of login request i after the await: of login, and of
\* handleSubmit with its catch and finally blocks
LoginReply(i, r) ==
    /\ i \in 1..Len(auth.requests)
    /\ auth.requests[i].path = "/auth/login"
    /\ auth.requests[i].phase = "sent"
    /\ LET form == auth.requests[i].by = "handleSubmit" IN
       auth' = [auth EXCEPT
           !.requests[i].phase = IF r.ok THEN "ok" ELSE "failed",
           !.requests[i].token = r.token,
           !.access_token = StoreToken(@, r),
           !.error = IF form /\ ~r.ok THEN "Erro no login" ELSE @,
           !.loading = IF form THEN FALSE ELSE @]
    /\ UNCHANGED <<AssistantState, ru>>

\* the reply to request i of ProtectedData: setData or setError
ProtectedDataReply(i, ok) ==
    /\ i \in 1..Len(auth.requests)
    /\ auth.requests[i].path = "/protected/data"
    /\ auth.requests[i].phase = "sent"
    /\ auth' = [auth EXCEPT !.requests[i].phase = IF ok THEN "ok" ELSE "failed"]
    /\ UNCHANGED <<AssistantState, ru>>

\* logout(): sessionStorage.removeItem("access_token")
logout ==
    /\ auth' = [auth EXCEPT !.access_token = NoToken]
    /\ UNCHANGED <<AssistantState, ru>>

NextClient ==
    \/ login
    \/ handleSubmit
    \/ ProtectedData
    \/ \E i \in 1..MaxRequests, r \in LoginReplies : LoginReply(i, r)
    \/ \E i \in 1..MaxRequests, ok \in BOOLEAN : ProtectedDataReply(i, ok)
    \/ logout

-----------------------------------------------------------------------------
(* A call of t *)

\* language codes and keys t is called with: the supported ones, an unknown
\* one, and one that names an inherited member
ProbeLangs == SupportedLangs \cup {"xx", "constructor"}

ProbeKeys == Keys \cup {"unknownKey", "constructor"}

Resolve ==
    /\ ~probe.called
    /\ probe' = [probe EXCEPT !.out = t(probe.lang, probe.key), !.called = TRUE]
    /\ UNCHANGED <<env, ru, auth, storage, doc, command, response, audioUrl, actions,
                   history, listening, uploadStatus, feedbackMessage,
                   feedbackRating, feedbackStatus, language, recognitionRef,
                   mediaRecorderRef, audioChunksRef, handles, sessions, timers,
                   commands, feedbacks>>

InitResolve ==
    /\ Mounted
    /\ env = [sr |-> FALSE, md |-> TRUE, mr |-> TRUE]
    /\ probe \in [lang : ProbeLangs, key : ProbeKeys, out : {<<>>},
                   called : {FALSE}]

SpecResolve == InitResolve /\ [][Resolve]_vars

-----------------------------------------------------------------------------
(* The component *)

Transcripts == {<<>>, <<"a">>}

NextText ==
    \/ \E c \in Inputs : TypeCommand(c)
    \/ SendCommand
    \/ \E id \in 1..MaxCommands, r \in CommandReplies : CommandReply(id, r)

NextRecognition ==
    \/ \E h \in 1..(MaxSwitches + 1) : RecognitionStart(h)
    \/ \E h \in 1..(MaxSwitches + 1), tr \in Transcripts : RecognitionResult(h, tr)
    \/ \E h \in 1..(MaxSwitches + 1) : RecognitionError(h)
    \/ \E h \in 1..(MaxSwitches + 1) : RecognitionEnd(h)

NextCapture ==
    \/ MicClick
    \/ \E s \in 1..MaxSessions, o \in Outcomes : GetUserMediaSettles(s, o)
    \/ \E s \in 1..MaxSessions : RecorderStart(s)
    \/ CeilingTimer
    \/ \E s \in 1..MaxSessions, e \in BOOLEAN : RecorderEnds(s, e)
    \/ \E s \in 1..MaxSessions, size \in {0, 1} : RecorderStop(s, size)
    \/ \E s \in 1..MaxSessions, r \in CommandReplies : UploadReply(s, r)

NextFeedback ==
    \/ \E m \in Inputs : TypeFeedback(m)
    \/ \E n \in Ratings : SelectRating(n)
    \/ SendFeedback
    \/ \E id \in 1..MaxFeedbacks, r \in FeedbackReplies : FeedbackReply(id, r)

NextLanguage == \E l \in Langs : SelectLanguage(l)

\* every event the components react to
Next ==
    \/ NextText
    \/ NextRecognition
    \/ NextCapture
    \/ NextFeedback
    \/ NextLanguage
    \/ NextRecorderUpload
    \/ NextClient

Spec == Init /\ [][Next]_vars

\* The recording path: a browser without native recognition, the mic button,
\* the recorders and the language select.
InitCapture == Init /\ ~env.sr

SpecCapture == InitCapture /\ [][NextCapture \/ NextLanguage]_vars

\* The three submissions side by side, in the language of the first render:
\* one capture session, text submissions and feedback submissions with a
\* command and a feedback message that are not blank.
NextSubmit ==
    \/ TypeCommand(<<" ", "a", " ">>)
    \/ SendCommand
    \/ \E id \in 1..MaxCommands, r \in CommandReplies : CommandReply(id, r)
    \/ MicClick /\ Len(sessions') <= 1
    \/ \E o \in Outcomes : GetUserMediaSettles(1, o)
    \/ RecorderStart(1)
    \/ CeilingTimer
    \/ \E e \in BOOLEAN : RecorderEnds(1, e)
    \/ \E size \in {0, 1} : RecorderStop(1, size)
    \/ \E r \in CommandReplies : UploadReply(1, r)
    \/ TypeFeedback(<<"a">>)
    \/ SelectRating(5)
    \/ SendFeedback
    \/ \E id \in 1..MaxFeedbacks, r \in FeedbackReplies : FeedbackReply(id, r)

SpecSubmit == InitCapture /\ [][NextSubmit]_vars

\* The failure paths of the three submissions: a browser that can record, one
\* capture session that delivers a chunk, and replies that are a failure or
\* the complete success body.
FailureReplies == {r \in CommandReplies : r.kind = "ok" => r.body.audio # <<>>}

NextFailure ==
    \/ TypeCommand(<<" ", "a", " ">>)
    \/ SendCommand
    \/ \E id \in 1..MaxCommands, r \in FailureReplies : CommandReply(id, r)
    \/ MicClick /\ Len(sessions') <= 1
    \/ \E o \in {"opus", "denied"} : GetUserMediaSettles(1, o)
    \/ RecorderStart(1)
    \/ CeilingTimer
    \/ RecorderStop(1, 1)
    \/ \E r \in FailureReplies : UploadReply(1, r)
    \/ TypeFeedback(<<"a">>)
    \/ SendFeedback
    \/ \E id \in 1..MaxFeedbacks, r \in FeedbackReplies : FeedbackReply(id, r)

InitFailure == Init /\ env = [sr |-> FALSE, md |-> TRUE, mr |-> TRUE]

SpecFailure == InitFailure /\ [][NextFailure]_vars

\* Voice input in every browser, one capture at a time: the mic button is
\* clicked when no earlier capture session is still in flight.
NoCaptureInFlight ==
    \A s \in 1..Len(sessions) :
        sessions[s].phase \in {"denied", "noRecorder", "done", "error"}

NextVoice ==
    \/ MicClick /\ NoCaptureInFlight
    \/ \E s \in 1..MaxSessions, o \in Outcomes : GetUserMediaSettles(s, o)
    \/ \E s \in 1..MaxSessions : RecorderStart(s)
    \/ CeilingTimer
    \/ \E s \in 1..MaxSessions, e \in BOOLEAN : RecorderEnds(s, e)
    \/ \E s \in 1..MaxSessions, size \in {0, 1} : RecorderStop(s, size)
    \/ \E s \in 1..MaxSessions, r \in FailureReplies : UploadReply(s, r)
    \/ NextRecognition
    \/ NextLanguage

SpecVoice == Init /\ [][NextVoice]_vars

\* Text submissions and audio uploads across reloads of the page; a
\* submission is started while the log has room for its exchanges.
NextReload ==
    \/ TypeCommand(<<" ", "a", " ">>)
    \/ SendCommand /\ Len(history) + 2 <= MaxLog
    \/ \E id \in 1..MaxCommands, r \in FailureReplies : CommandReply(id, r)
    \/ MicClick /\ NoCaptureInFlight /\ Len(history) + 2 <= MaxLog
    \/ \E s \in 1..MaxSessions : GetUserMediaSettles(s, "opus")
    \/ \E s \in 1..MaxSessions : RecorderStart(s)
    \/ CeilingTimer
    \/ \E s \in 1..MaxSessions : RecorderStop(s, 1)
    \/ \E s \in 1..MaxSessions, r \in FailureReplies : UploadReply(s, r)
    \/ Reload

SpecReload == InitFailure /\ [][NextReload]_vars

\* One text submission and one audio upload answered with suggested actions
\* of every form.
NextActions ==
    \/ TypeCommand(<<" ", "a", " ">>)
    \/ SendCommand
    \/ \E id \in 1..MaxCommands, r \in ActionReplies : CommandReply(id, r)
    \/ MicClick /\ Len(sessions') <= 1
    \/ GetUserMediaSettles(1, "opus")
    \/ RecorderStart(1)
    \/ CeilingTimer
    \/ RecorderStop(1, 1)
    \/ \E r \in ActionReplies : UploadReply(1, r)

SpecActions == InitFailure /\ [][NextActions]_vars

\* One text submission and one audio upload, each answered with a success
\* that has actions or has none, or with a failure.
NextSuggested ==
    \/ TypeCommand(<<" ", "a", " ">>)
    \/ SendCommand
    \/ \E id \in 1..MaxCommands, r \in CommandReplies : CommandReply(id, r)
    \/ MicClick /\ Len(sessions') <= 1
    \/ GetUserMediaSettles(1, "opus")
    \/ RecorderStart(1)
    \/ CeilingTimer
    \/ RecorderStop(1, 1)
    \/ \E r \in CommandReplies : UploadReply(1, r)

SpecSuggested == InitFailure /\ [][NextSuggested]_vars

\* The RecorderUpload component alone.
SpecRecorderUpload == InitFailure /\ [][NextRecorderUpload]_vars

\* The shared API client alone.
SpecClient == InitFailure /\ [][NextClient]_vars

\* The feedback form and the language select, in a browser without native
\* recognition.
NextFeedbackForm ==
    \/ \E m \in Inputs : TypeFeedback(m)
    \/ SelectRating(5)
    \/ SendFeedback
    \/ \E id \in 1..MaxFeedbacks, r \in FeedbackReplies : FeedbackReply(id, r)
    \/ \E l \in SupportedLangs : SelectLanguage(l)

SpecFeedback == InitFailure /\ [][NextFeedbackForm]_vars

\* The command field in a browser with native recognition: typing, dictating,
\* submitting and switching the language; the recognitions end without
\* reporting an error.
NextDictation ==
    \/ \E c \in Inputs : TypeCommand(c)
    \/ SendCommand
    \/ \E id \in 1..MaxCommands, r \in FailureReplies : CommandReply(id, r)
    \/ MicClick
    \/ \E h \in 1..(MaxSwitches + 1) : RecognitionStart(h)
    \/ \E h \in 1..(MaxSwitches + 1), tr \in Transcripts : RecognitionResult(h, tr)
    \/ \E h \in 1..(MaxSwitches + 1) : RecognitionEnd(h)
    \/ NextLanguage

InitDictation == Init /\ env.sr

SpecDictation == InitDictation /\ [][NextDictation]_vars

\* The listening flag in a browser with native recognition: the mic button,
\* the events of the recognitions and the language select.
NextListening ==
    \/ MicClick
    \/ NextRecognition
    \/ NextLanguage

\* The platform delivers the start event of a recognition it has started and
\* the end event of a recognition that is running; the user need not act.
PlatformDelivers ==
    \A h \in 1..(MaxSwitches + 1) :
        /\ WF_vars(RecognitionStart(h))
        /\ WF_vars(RecognitionEnd(h))

SpecListening == InitDictation /\ [][NextListening]_vars /\ PlatformDelivers

-----------------------------------------------------------------------------
(* Vocabulary of the properties *)

SessionIds == 1..Len(sessions)

\* a capture session that is capturing, stopping or uploading
Active(s) == sessions[s].phase \in {"recording", "stopping", "uploading"}

\* the recorder of session s was constructed and its 5 s timer has fired
TimerFired(s) ==
    /\ sessions[s].mime # ""
    /\ \A i \in 1..Len(timers) : timers[i] # s

\* the exchanges operation op appended, in log order
OpEntries(op) == SelectSeq(history, LAMBDA e : e.op = op)

Roles(entries) == [i \in 1..Len(entries) |-> entries[i].role]

\* the operations that completed with a success, with a failure
Succeeded ==
    {<<"text", i>> : i \in {j \in 1..Len(commands) : commands[j].phase = "done"}}
      \cup {<<"audio", i>> : i \in {j \in SessionIds : sessions[j].phase = "done"}}

Failed ==
    {<<"text", i>> : i \in {j \in 1..Len(commands) : commands[j].phase = "failed"}}
      \cup {<<"audio", i>> : i \in {j \in SessionIds : sessions[j].phase = "error"}}

ReplyOf(op) == IF op[1] = "text" THEN commands[op[2]].reply ELSE sessions[op[2]].reply

-----------------------------------------------------------------------------
(* Recording session manager *)

\* C1: at most one capture session is capturing, stopping or uploading at
\* any time; a second activation starts no second recorder.
C1_AtMostOneActiveSession ==
    Cardinality({s \in SessionIds : Active(s)}) <= 1

\* C2: a step of startRecording (the click, or its continuation after the
\* device was acquired) taken while another session is capturing leaves the
\* buffered chunks, the recorder reference and the upload status as they were.
C2_ActivationLeavesCapturingSession ==
    [][ \A s \in SessionIds :
          /\ sessions[s].phase = "recording"
          /\ \/ StartRecording
             \/ \E s2 \in SessionIds \ {s}, o \in Outcomes : GetUserMediaSettles(s2, o)
          => /\ audioChunksRef' = audioChunksRef
             /\ mediaRecorderRef' = mediaRecorderRef
             /\ uploadStatus' = uploadStatus ]_vars

\* C3: once the 5 s timer of a capture session has fired, the recorder of
\* that session is no longer recording.
C3_CeilingStopsEveryRecorder ==
    \A s \in SessionIds : TimerFired(s) => sessions[s].phase # "recording"

\* C9: the upload status becomes "uploading" only in a step in which a
\* stopped recorder hands over its payload, "uploading" is followed only by
\* "done" or "error", and "idle" is entered only from "done", "error" or
\* "idle" (the unset status of the first render counts as idle).
C9_CaptureFlow ==
    [][ /\ (uploadStatus' = "uploading" /\ uploadStatus # "uploading")
              => \E s \in SessionIds : /\ sessions[s].phase = "stopping"
                                       /\ sessions'[s].phase = "uploading"
        /\ uploadStatus = "uploading"
              => uploadStatus' \in {"uploading", "done", "error"}
        /\ uploadStatus' = "idle"
              => uploadStatus \in {"", "idle", "done", "error"} ]_vars

\* C10: the payload of a capture session holds exactly the non-empty chunks
\* its own recorder delivered, in arrival order, and is tagged with the type
\* of the first of them, or with audio/webm when there is none.
C10_PayloadIsOwnChunks ==
    \A s \in SessionIds :
        sessions[s].phase \in {"uploading", "done", "error"}
        => /\ sessions[s].payload.chunks = sessions[s].emitted
           /\ sessions[s].payload.type =
                 IF sessions[s].emitted # <<>>
                 THEN sessions[s].emitted[1].type ELSE "audio/webm"

-----------------------------------------------------------------------------
(* Upload/response pipeline *)

\* C4: in the log, the user exchange of an operation comes before the
\* assistant exchange of the same operation.
C4_UserBeforeAssistant ==
    \A i, j \in 1..Len(history) :
        /\ history[i].op = history[j].op
        /\ history[i].role = "user"
        /\ history[j].role = "assistant"
        => i < j

\* C5: a successful submission whose reply carries a response R has exactly
\* two exchanges in the log, a user exchange and an assistant exchange with
\* text R.
C5_SuccessAddsUserAndAssistant ==
    \A op \in Succeeded :
        ReplyOf(op).body.response # <<>>
        => LET es == OpEntries(op) IN
           /\ Len(es) = 2
           /\ \E i \in 1..2 : es[i].role = "user"
           /\ \E i \in 1..2 : /\ es[i].role = "assistant"
                              /\ es[i].text = ReplyOf(op).body.response

\* C6 as stated: a failed submission has exactly one exchange in the log, of
\* role error.
C6_FailureAddsOneExchange ==
    \A op \in Failed : Roles(OpEntries(op)) = <<"error">>

\* C6 as amended: a failed submission has exactly one error exchange and no
\* assistant exchange in the log; for an audio upload it is the only
\* exchange of the operation, for a text submission it follows the user
\* exchange that was appended before the request was sent.
C6_FailureAddsOneErrorExchange ==
    \A op \in Failed :
        Roles(OpEntries(op)) = IF op[1] = "audio" THEN <<"error">>
                               ELSE <<"user", "error">>

C6_Witness ==
    /\ \E i \in 1..Len(commands) : commands[i].phase = "failed"
    /\ \E s \in SessionIds : sessions[s].phase = "error"

\* C7: a reply with a non-success status to a text submission, an audio
\* upload or a feedback submission is not taken for a success: the displayed
\* response, the playable audio and the suggested actions do not come from
\* its body, no assistant exchange is appended for the operation, and the
\* upload status and the feedback status do not report a success.
C7_NonSuccessStatusIsFailure ==
    [][ /\ \A id \in 1..Len(commands) :
              commands[id].phase = "sent" /\ commands'[id].reply.kind = "http"
              => LET body == commands'[id].reply.body IN
                 /\ response' # body.response
                 /\ audioUrl' # [kind |-> "remote", ref |-> body.audio, of |-> 0]
                 /\ actions' # NormalizeActions(body.actions)
                 /\ \A i \in 1..Len(history') :
                        history'[i].op = <<"text", id>>
                        => history'[i].role # "assistant"
        /\ \A s \in SessionIds :
              sessions[s].phase = "uploading" /\ sessions'[s].reply.kind = "http"
              => LET body == sessions'[s].reply.body IN
                 /\ response' # body.response
                 /\ audioUrl' # [kind |-> "remote", ref |-> body.audio, of |-> 0]
                 /\ actions' # NormalizeActions(body.actions)
                 /\ uploadStatus' # "done"
                 /\ \A i \in 1..Len(history') :
                        history'[i].op = <<"audio", s>>
                        => history'[i].role \notin {"assistant", "user"}
        /\ \A id \in 1..Len(feedbacks) :
              feedbacks[id].phase = "sent" /\ feedbacks'[id].reply.kind = "http"
              => /\ feedbackStatus' # feedbacks'[id].reply.body.status
                 /\ feedbackStatus' # t(feedbacks[id].lang, "feedbackSent")
                 /\ feedbackMessage' = feedbackMessage
                 /\ feedbackRating' = feedbackRating ]_vars

C7_Witness ==
    /\ \E id \in 1..Len(commands) : commands[id].reply.kind = "http"
    /\ \E s \in SessionIds : sessions[s].reply.kind = "http"
    /\ \E id \in 1..Len(feedbacks) : feedbacks[id].reply.kind = "http"

\* the pieces of a failed request's diagnostic detail: the status code, the
\* text of the body, the message of the exception
DiagnosticTokens == {"HTTP", "500", "-", "D", "http://d", "Failed to fetch"}

Leaks(text) == \E i \in 1..Len(text) : text[i] \in DiagnosticTokens

\* the strings of one key in the tables of all languages
LocalizedStrings == [k \in Keys |-> {t(l, k) : l \in SupportedLangs}]

Localized(key) == LocalizedStrings[key]

\* C8: no diagnostic detail of a failed request appears in the log, the
\* displayed response or the feedback status; an error exchange carries the
\* fixed connectivity message; and what a failing operation displays is its
\* own localized fallback string.
C8_NoDiagnosticsShown ==
    /\ [](/\ ~Leaks(response)
          /\ ~Leaks(feedbackStatus)
          /\ \A i \in 1..Len(history) :
                /\ ~Leaks(history[i].text)
                /\ history[i].role = "error" => history[i].text = ConnectionError)
    /\ [][ /\ \A id \in 1..Len(commands) :
                 /\ commands[id].phase = "sent"
                 /\ commands'[id].reply.kind \in {"http", "network"}
                 => response' \in Localized("assistantNotAvailable")
           /\ \A s \in SessionIds :
                 /\ sessions[s].phase = "uploading"
                 /\ sessions'[s].reply.kind \in {"http", "network"}
                 => response' \in Localized("uploadError")
           /\ \A id \in 1..Len(feedbacks) :
                 /\ feedbacks[id].phase = "sent"
                 /\ feedbacks'[id].reply.kind \in {"http", "network"}
                 => feedbackStatus' \in Localized("feedbackError") ]_vars

C8_Witness ==
    /\ \E id \in 1..Len(commands) : commands[id].reply.kind = "http"
    /\ \E s \in SessionIds : sessions[s].reply.kind = "network"
    /\ \E id \in 1..Len(feedbacks) : feedbacks[id].phase = "failed"
    /\ \E i \in 1..Len(history) : history[i].role = "error"

-----------------------------------------------------------------------------
(* Language selection and native recognition *)

\* C11: a language selection leaves every capture session, the buffered
\* chunks, the recorder reference and the armed timers as they were; the
\* payload a stopped recorder hands over is tagged with the language that
\* was selected when its capture was activated; and a capture activated
\* after the selection carries the new language.
C11_SwitchKeepsCaptureSession ==
    [][ /\ language' # language
              => /\ sessions' = sessions
                 /\ audioChunksRef' = audioChunksRef
                 /\ mediaRecorderRef' = mediaRecorderRef
                 /\ timers' = timers
        /\ \A s \in SessionIds :
              sessions[s].phase = "stopping" /\ sessions'[s].phase = "uploading"
              => /\ sessions'[s].payload.lang = sessions[s].lang
                 /\ sessions'[s].lang = sessions[s].lang
        /\ Len(sessions') > Len(sessions)
              => sessions'[Len(sessions')].lang = language ]_vars

C11_Witness ==
    \E s1, s2 \in SessionIds :
        /\ s1 < s2
        /\ sessions[s1].phase \in {"done", "error"}
        /\ sessions[s1].payload.chunks # <<>>
        /\ sessions[s1].payload.lang = "pt"
        /\ sessions[s2].phase = "uploading"
        /\ sessions[s2].payload.lang = "ar"
        /\ language = "pt"

\* the state of the component outside the recognition handles
ComponentState ==
    <<command, response, audioUrl, actions, history, listening, uploadStatus,
      feedbackMessage, feedbackRating, feedbackStatus, language,
      recognitionRef, mediaRecorderRef, audioChunksRef, storage>>

\* C12: the only handle with callbacks installed is the one the reference
\* holds, and a start, result, error or end event of a handle constructed
\* for an earlier language changes nothing of the component's state.
C12_EarlierHandleIsSilent ==
    /\ [](\A h \in 1..Len(handles) : handles[h].bound <=> h = recognitionRef)
    /\ [][ \A h \in 1..Len(handles) :
             /\ ~handles[h].bound
             /\ \/ RecognitionStart(h)
                \/ RecognitionError(h)
                \/ RecognitionEnd(h)
                \/ \E tr \in Transcripts : RecognitionResult(h, tr)
             => UNCHANGED ComponentState ]_vars

C12_Witness ==
    /\ listening
    /\ recognitionRef = 2
    /\ ~handles[2].active
    /\ ~handles[1].bound /\ handles[1].errored /\ ~handles[1].active

\* C13: where native recognition exists, the reference holds a handle with
\* the locale tag of the current language, interim results off and
\* continuous mode off; where it does not exist, no handle is bound.
C13_HandleFollowsLanguage ==
    IF env.sr
    THEN /\ recognitionRef \in 1..Len(handles)
         /\ handles[recognitionRef].bound
         /\ handles[recognitionRef].lang = recognitionLangMap[language]
         /\ ~handles[recognitionRef].interimResults
         /\ ~handles[recognitionRef].continuous
    ELSE recognitionRef = 0 /\ handles = <<>>

C13_Witness ==
    /\ env.sr
    /\ language = "ar"
    /\ recognitionRef = 2
    /\ handles[2].lang = "ar-SA"

\* the messages the component displays for a failure of voice input
VoiceFailureMessages ==
    UNION {Localized(k) : k \in {"recognitionNotSupported", "micNotSupported",
                                  "recordingNotSupported", "micAccessError",
                                  "uploadError"}}

-----------------------------------------------------------------------------
(* Capture activation *)

\* C15: a click of the mic button starts the bound recognition handle, or
\* reports that it could not; with no handle bound it opens a capture
\* session when the browser can record, and otherwise displays the localized
\* unsupported message of the missing capability.  No click does neither.
C15_ActivationStartsOrReports ==
    [][ MicClick =>
          IF recognitionRef # 0
          THEN /\ sessions' = sessions
               /\ \/ /\ ~handles[recognitionRef].active
                     /\ handles'[recognitionRef].active
                  \/ response' = t(language, "recognitionNotSupported")
          ELSE /\ handles' = handles
               /\ IF env.md /\ env.mr
                  THEN /\ Len(sessions') = Len(sessions) + 1
                       /\ sessions'[Len(sessions')].phase = "acquiring"
                  ELSE /\ sessions' = sessions
                       /\ response' = IF ~env.md
                                      THEN t(language, "micNotSupported")
                                      ELSE t(language, "recordingNotSupported")
                       /\ response' \in VoiceFailureMessages ]_vars

\* a click in a browser with neither capability, after a language selection
C15_Witness ==
    /\ ~env.sr /\ ~env.md
    /\ language = "ar"
    /\ response = t("ar", "micNotSupported")
    /\ uploadStatus = "idle"
    /\ sessions = <<>>

\* a failing start of a recording leaves the recorders, the timers, the
\* uploads, the log and the listening flag alone
FailedStartIsQuiet ==
    /\ timers' = timers
    /\ mediaRecorderRef' = mediaRecorderRef
    /\ history' = history
    /\ ~listening'
    /\ \A s \in 1..Len(sessions') :
          sessions'[s].phase \notin {"recording", "stopping", "uploading"}

C17_EndedSessionIsDiscarded ==
    \A s \in SessionIds :
        sessions[s].phase \in {"uploading", "done", "error"}
        => /\ mediaRecorderRef # s
           /\ \A i \in 1..Len(audioChunksRef) : audioChunksRef[i].data # s

-----------------------------------------------------------------------------
(* Failure recovery *)

\* the UI is back in its idle-equivalent state
InteractiveAfter == ~listening' /\ uploadStatus' # "uploading"

\* C18: after the step of every failure path (an error of a started
\* recognition, an error of a recorder, a refused device or a recorder that
\* cannot be constructed, a failed text, audio or feedback request) the
\* listening flag is false and the upload status is not uploading.
C18_FailureLeavesUiInteractive ==
    [][ /\ \A h \in 1..Len(handles) : RecognitionError(h) => InteractiveAfter
        /\ \A s \in SessionIds :
              /\ RecorderEnds(s, TRUE) => InteractiveAfter
              /\ GetUserMediaSettles(s, "denied") => InteractiveAfter
              /\ GetUserMediaSettles(s, "noRecorder") => InteractiveAfter
              /\ \A r \in Failures : UploadReply(s, r) => InteractiveAfter
        /\ \A id \in 1..Len(commands), r \in Failures :
              CommandReply(id, r) => InteractiveAfter
        /\ \A id \in 1..Len(feedbacks), r \in Failures :
              FeedbackReply(id, r) => InteractiveAfter ]_vars

-----------------------------------------------------------------------------
(* Conversation log *)

\* the {role, text} records of a log
Records(h) == [i \in 1..Len(h) |-> [role |-> h[i].role, text |-> h[i].text]]

\* C19: every step leaves the log as it was or extends it at the end; the
\* exchanges already in it keep their role, text and position.
C19_LogIsAppendOnly ==
    [][ /\ Len(history') >= Len(history)
        /\ SubSeq(history', 1, Len(history)) = history ]_vars

\* a log that text submissions and an audio upload have extended in turn
C19_Witness ==
    /\ Len(history) >= 4
    /\ \E i, j \in 1..Len(history) :
          /\ i < j
          /\ history[i].op[1] = "audio"
          /\ history[j].op[1] = "text"
    /\ \E i \in 1..Len(history) : history[i].role = "error"

\* C20: in every state the value stored under the history key parses to the
\* current log, exchange by exchange and in the same order.
C20_StorageHoldsLog ==
    ParseHistory(storage) = Records(history)

C20_Witness ==
    /\ Len(history) >= 3
    /\ storage # <<>>
    /\ \E i \in 1..Len(history) : history[i].role = "assistant"
    /\ history[Len(history)].role = "error"

\* C21: a reload restores the log that was there before it, exchange by
\* exchange and in the same order; with nothing stored the log is empty.
C21_ReloadRestoresLog ==
    /\ [](storage = <<>> => history = <<>>)
    /\ [][ Reload => Records(history') = Records(history) ]_vars

\* a log of a text submission and an audio upload, restored by a reload and
\* extended afterwards
C21_Witness ==
    /\ Len(history) >= 4
    /\ history[1].op = <<"stored", 0>>
    /\ history[2].op = <<"stored", 0>>
    /\ history[1].role # history[2].role
    /\ history[Len(history)].op # <<"stored", 0>>

-----------------------------------------------------------------------------
(* Response envelope *)

\* the ordered (label, url) links of the entries of an `actions` field, each
\* with a non-empty label and a URL, "#" when the entry has none
ExpectedLinks(items) ==
    [i \in 1..Len(items) |->
        [label |-> IF items[i][1] # "" THEN items[i][1]
                   ELSE "Action " \o ToString(i),
         url |-> IF items[i][2] # "" THEN items[i][2] ELSE "#"]]

\* C22: the links shown after a successful reply are the ordered
\* (label, url) links of the entries of its `actions` field, whether the
\* field is a keyed mapping or an ordered list, each with a non-empty label
\* and a URL that is "#" when the entry has none.
C22_ActionsNormalizedAlike ==
    [][ /\ \A id \in 1..Len(commands) :
              commands[id].phase = "sent" /\ commands'[id].phase = "done"
              => RenderLinks(actions') =
                    ExpectedLinks(commands'[id].reply.body.actions.items)
        /\ \A s \in SessionIds :
              /\ sessions[s].phase = "uploading" /\ sessions'[s].phase = "done"
              /\ sessions'[s].reply.body.actions.shape # "absent"
              => RenderLinks(actions') =
                    ExpectedLinks(sessions'[s].reply.body.actions.items) ]_vars

\* C23: the step that takes a successful reply without response text
\* displays the localized no-response string and appends an assistant
\* exchange with that string, for a text submission and for an audio upload.
C23_MissingResponseIsDefaulted ==
    [][ /\ \A id \in 1..Len(commands) :
              /\ commands[id].phase = "sent" /\ commands'[id].phase = "done"
              /\ commands'[id].reply.body.response = <<>>
              => LET text == t(commands[id].lang, "assistantNotAvailable") IN
                 /\ response' = text
                 /\ \E i \in Len(history) + 1..Len(history') :
                       history'[i].role = "assistant" /\ history'[i].text = text
        /\ \A s \in SessionIds :
              /\ sessions[s].phase = "uploading" /\ sessions'[s].phase = "done"
              /\ sessions'[s].reply.body.response = <<>>
              => LET text == t(sessions[s].lang, "assistantNotAvailable") IN
                 /\ response' = text
                 /\ \E i \in Len(history) + 1..Len(history') :
                       history'[i].role = "assistant" /\ history'[i].text = text
      ]_vars

-----------------------------------------------------------------------------
(* Feedback submitter *)

\* a text that is empty or consists of whitespace only
Blank(text) == \A i \in 1..Len(text) : text[i] = " "

\* C24: submitting a feedback message that is empty or whitespace-only sends
\* no request, sets the localized validation message as the status and
\* leaves the message and the rating as entered.
C24_BlankFeedbackIsRejected ==
    [][ Blank(feedbackMessage) /\ language' = language /\ SendFeedback
        => /\ feedbacks' = feedbacks
           /\ feedbackStatus' = translations[language]["feedbackEmpty"]
           /\ feedbackMessage' = feedbackMessage
           /\ feedbackRating' = feedbackRating ]_vars

\* a whitespace-only message with a rating, rejected in a language other
\* than the one of the first render
C24_Witness ==
    /\ feedbackMessage = <<" ">>
    /\ feedbackRating = 5
    /\ language = "ar"
    /\ feedbackStatus = translations["ar"]["feedbackEmpty"]
    /\ feedbacks = <<>>

\* C25: the step that takes the reply to a feedback submission clears the
\* message and resets the rating when the reply is a success, and otherwise
\* sets the localized failure message and leaves the message and the rating
\* as they are.
C25_FeedbackOutcome ==
    [][ \A id \in 1..Len(feedbacks) :
          feedbacks[id].phase = "sent" /\ feedbacks'[id].phase # "sent"
          => IF feedbacks'[id].reply.kind = "ok"
             THEN /\ feedbackMessage' = <<>>
                  /\ feedbackRating' = 0
                  /\ feedbacks'[id].phase = "done"
             ELSE /\ feedbackStatus' =
                        translations[feedbacks[id].lang]["feedbackError"]
                  /\ feedbackMessage' = feedbackMessage
                  /\ feedbackRating' = feedbackRating
                  /\ feedbacks'[id].phase = "failed" ]_vars

\* a failed submission whose message and rating are still in the form
C25_Witness ==
    \E id \in 1..Len(feedbacks) :
        /\ feedbacks[id].phase = "failed"
        /\ feedbacks[id].reply.kind = "http"
        /\ feedbackMessage = feedbacks[id].message
        /\ feedbackRating = 5
        /\ feedbackStatus = translations[feedbacks[id].lang]["feedbackError"]

\* the conversation and the capture state
ConversationState ==
    <<history, storage, response, actions, audioUrl, listening, uploadStatus,
      sessions, timers, audioChunksRef, mediaRecorderRef, commands, command>>

\* C26: no step of a feedback submission (the click, which sends a request
\* or sets the validation message, and the reply, which settles the request)
\* changes the log, the displayed response, the suggested actions or the
\* capture state.
C26_FeedbackLeavesConversation ==
    [][ feedbacks' # feedbacks \/ feedbackStatus' # feedbackStatus
        => UNCHANGED ConversationState ]_vars

\* a feedback reply taken while a text submission and an upload are in flight
C26_Witness ==
    /\ \E id \in 1..Len(feedbacks) : feedbacks[id].phase \in {"done", "failed"}
    /\ \E id \in 1..Len(commands) : commands[id].phase = "sent"
    /\ \E s \in SessionIds : sessions[s].phase = "uploading"

-----------------------------------------------------------------------------
(* Localization resolver *)

\* C27: t(lang, key) is the entry of the table of lang when that table has
\* the key, otherwise the entry of the English table, otherwise the key
\* itself, for every language code and every key.
C27_ResolveFallsBack ==
    probe.called
    => probe.out =
          IF probe.lang \in SupportedLangs
                /\ probe.key \in DOMAIN translations[probe.lang]
          THEN translations[probe.lang][probe.key]
          ELSE IF probe.key \in DOMAIN translations["en"]
               THEN translations["en"][probe.key]
               ELSE <<probe.key>>

\* C28: for a supported language and a key of the English table, t returns
\* the non-empty entry of the language's own table.
C28_SupportedLanguagesAreComplete ==
    probe.called /\ probe.lang \in SupportedLangs
                 /\ probe.key \in DOMAIN translations["en"]
    => /\ probe.key \in DOMAIN translations[probe.lang]
       /\ probe.out = translations[probe.lang][probe.key]
       /\ probe.out # <<>>

C28_Witness ==
    /\ probe.called
    /\ probe.lang = "ru"
    /\ probe.key = "feedbackSent"
    /\ probe.out = <<"ru:feedbackSent">>

\* C29: in every state the document direction is rtl when the session
\* language is Arabic and ltr otherwise, and the document language is the
\* session language (pt-BR for pt).
C29_DocumentFollowsLanguage ==
    /\ doc.dir = IF language = "ar" THEN "rtl" ELSE "ltr"
    /\ doc.lang = IF language = "pt" THEN "pt-BR" ELSE language

\* back in a left-to-right language after Arabic, with a feedback sent in
\* Arabic
C29_Witness ==
    /\ language = "en"
    /\ doc = [lang |-> "en", dir |-> "ltr"]
    /\ \E id \in 1..Len(feedbacks) : feedbacks[id].lang = "ar"

-----------------------------------------------------------------------------
(* Playable audio *)

-----------------------------------------------------------------------------
(* The ceiling timer and a recorder that has already stopped *)

\* the payload of session s has been handed to the upload pipeline
HandedOver(s) == sessions[s].phase \in {"uploading", "done", "error"}

\* C31: when the 5 s timer of a capture session fires and the recorder of
\* that session is no longer recording, the step leaves the session, the
\* displayed response, the upload status and the log as they were; and a
\* session whose payload was handed to the upload pipeline is never stopped
\* again and keeps that payload, so it hands over at most once.
C31_StoppedRecorderIsLeftAlone ==
    [][ /\ \A s \in SessionIds :
             /\ timers # <<>> /\ Head(timers) = s /\ timers' = Tail(timers)
             /\ RecorderState(s) = "inactive"
             => /\ sessions'[s] = sessions[s]
                /\ response' = response
                /\ uploadStatus' = uploadStatus
                /\ history' = history
        /\ \A s \in SessionIds :
             HandedOver(s)
             => /\ sessions'[s].phase \in {"uploading", "done", "error"}
                /\ sessions'[s].payload = sessions[s].payload ]_vars

\* the recorder ended by itself, its payload was handed over, and its timer
\* fired afterwards without stopping anything of that session
C31_Witness ==
    \E s \in SessionIds :
        /\ TimerFired(s)
        /\ sessions[s].stoppedBy = 0
        /\ HandedOver(s)
        /\ sessions[s].payload.chunks # <<>>

-----------------------------------------------------------------------------
(* Text submission *)

\* text is what remains of field c when the whitespace at its two ends is
\* removed, and is not empty
IsTrimOf(text, c) ==
    \E i, j \in 1..Len(c) :
        /\ i <= j
        /\ text = SubSeq(c, i, j)
        /\ c[i] # " " /\ c[j] # " "
        /\ \A k \in 1..Len(c) : (k < i \/ k > j) => c[k] = " "

\* C32: a submission of an empty or whitespace-only command sends no request
\* and leaves the log and the displayed response as they were; a step that
\* sends a request sends exactly one, with the trimmed command and the
\* language selected in that step, and appends the user exchange with that
\* same trimmed text.
C32_SubmissionSendsTrimmedCommand ==
    [][ /\ SendCommand /\ Blank(command)
           => /\ commands' = commands
              /\ history' = history
              /\ response' = response
        /\ commands' # commands /\ Len(commands') > Len(commands)
           => /\ ~Blank(command)
              /\ Len(commands') = Len(commands) + 1
              /\ SubSeq(commands', 1, Len(commands)) = commands
              /\ LET c == commands'[Len(commands')] IN
                    /\ IsTrimOf(c.text, command)
                    /\ c.lang = language
                    /\ Len(history') = Len(history) + 1
                    /\ history'[Len(history')].role = "user"
                    /\ history'[Len(history')].text = c.text ]_vars

\* a command typed with whitespace around it, submitted after the language
\* was switched, and still in flight
C32_Witness ==
    /\ command = <<" ", "a", " ">>
    /\ language = "ar"
    /\ Len(commands) = 1
    /\ commands[1].text = <<"a">>
    /\ commands[1].lang = "ar"
    /\ commands[1].phase = "sent"
    /\ history = <<Exchange("user", <<"a">>, <<"text", 1>>)>>

-----------------------------------------------------------------------------
(* The listening flag of a native recognition *)

\* C33: whenever the listening flag is set (where no recorder exists, only
\* the start event of a native recognition sets it), it is eventually
\* cleared, given that every started recognition ends; also when the
\* language is switched while the recognition runs.
C33_ListeningIsEventuallyCleared == listening ~> ~listening

-----------------------------------------------------------------------------
(* The ceiling timer and later capture sessions *)

\* C34: a recorder that was stopped by a 5 s timer was stopped by the timer
\* its own capture session armed, never by the timer of an earlier session.
C34_TimerStopsOwnRecorder ==
    \A s \in SessionIds : sessions[s].stoppedBy \in {0, s}

-----------------------------------------------------------------------------
(* Unsupported-capability messages *)

\* the step displays the message of table entry key, in some language
Reports(key) ==
    /\ response' # response
    /\ \E l \in SupportedLangs : response' = translations[l][key]

\* C35: a step displays the recognition-not-supported message only in a
\* browser without native recognition, the microphone-not-supported message
\* only in a browser without getUserMedia, and the recording-not-supported
\* message only where no recorder exists or can be constructed; a mic click
\* while the bound recognition is listening displays none of them.
C35_UnsupportedOnlyWhenAbsent ==
    [][ /\ Reports("recognitionNotSupported") => ~env.sr
        /\ Reports("micNotSupported") => ~env.md
        /\ Reports("recordingNotSupported")
              => \/ ~env.mr
                 \/ \E s \in SessionIds : /\ sessions[s].phase = "acquiring"
                                          /\ sessions'[s].phase = "noRecorder" ]_vars

-----------------------------------------------------------------------------
(* The result of a native recognition *)

\* C36: the result event of the bound recognition sets the command field to
\* the top transcript of the first result when that transcript is not empty
\* and leaves the field as it was otherwise; the step sends no request and
\* changes neither the log, the displayed response nor anything else of the
\* conversation.
C36_ResultOnlyFillsCommand ==
    [][ \A h \in 1..Len(handles), tr \in Transcripts :
          RecognitionResult(h, tr)
          => /\ command' = IF handles[h].bound /\ tr # <<>> THEN tr ELSE command
             /\ UNCHANGED <<commands, feedbacks, sessions, history, response,
                            audioUrl, actions, storage, listening>> ]_vars

\* a transcript dictated into the field while a typed command is in flight
C36_Witness ==
    /\ command = <<"a">>
    /\ Len(commands) = 1
    /\ commands[1].phase = "sent"
    /\ Len(history) = 1
    /\ response = <<>>

-----------------------------------------------------------------------------
(* The command field after a text submission *)

\* C37: the step in which a text submission completes, with a success or
\* with a failure, leaves the command field empty, whatever the field held
\* when the reply arrived.
C37_CompletionClearsCommand ==
    [][ \A id \in 1..Len(commands) :
          commands[id].phase = "sent" /\ commands'[id].phase # "sent"
          => /\ commands'[id].phase \in {"done", "failed"}
             /\ command' = <<>> ]_vars

\* a failed submission of a typed command; a transcript dictated while the
\* request was in flight was in the field when it completed
C37_Witness ==
    /\ Len(commands) = 1
    /\ commands[1].phase = "failed"
    /\ commands[1].overwritten = <<"a">>
    /\ command = <<>>

-----------------------------------------------------------------------------
(* Suggested actions across submissions *)

\* the actions shown are the entries of an `actions` field, in its order
ShowsEntriesOf(shown, field) ==
    /\ Len(shown) = Len(field.items)
    /\ \A i \in 1..Len(shown) :
          /\ shown[i].label = field.items[i][1]
          /\ shown[i].url = field.items[i][2]

\* C38: the step that takes a successful reply to a text submission shows
\* exactly the entries of that reply's actions, none when the reply has
\* none; the step that takes a successful audio reply without actions, and
\* the step that takes a failed reply to either submission, leave the
\* actions shown as they were.
C38_ActionsFollowTextReply ==
    [][ /\ \A id \in 1..Len(commands) :
              commands[id].phase = "sent" /\ commands'[id].phase # "sent"
              => IF commands'[id].phase = "done"
                 THEN ShowsEntriesOf(actions', commands'[id].reply.body.actions)
                 ELSE actions' = actions
        /\ \A s \in SessionIds :
              sessions[s].phase = "uploading" /\ sessions'[s].phase # "uploading"
              => \/ /\ sessions'[s].phase = "done"
                    /\ sessions'[s].reply.body.actions.shape # "absent"
                 \/ actions' = actions ]_vars

\* the actions of an audio reply were shown, and a later successful text
\* reply without actions removed them
C38_Witness ==
    /\ Len(sessions) = 1 /\ Len(commands) = 1
    /\ sessions[1].phase = "done"
    /\ sessions[1].reply.body.actions.shape = "list"
    /\ commands[1].phase = "done"
    /\ commands[1].reply.body.actions.shape = "absent"
    /\ commands[1].reply.body.response # <<>>
    /\ actions = <<>>

-----------------------------------------------------------------------------
(* The RecorderUpload component *)

\* C39: at most one recorder of the RecorderUpload component is recording at
\* any time, and a recorder that is recording is the one the ref holds, the
\* one Stop & Send will stop and upload.
C39_OneRecorderAtATime ==
    /\ Cardinality({k \in 1..Len(ru.recorders) :
                       ru.recorders[k].phase = "recording"}) <= 1
    /\ \A k \in 1..Len(ru.recorders) :
          ru.recorders[k].phase = "recording" => ru.mediaRecorderRef = k

-----------------------------------------------------------------------------
(* The shared API client *)

\* C40: a request sent through the shared client carries the header
\* "Bearer <token>" with the token stored when it is sent, and no
\* Authorization header when none is stored then; the continuation of a
\* successful login stores the token of its reply, the continuation of a
\* failed login leaves the stored token as it was, and logout removes it.
C40_HeaderCarriesStoredToken ==
    [][ /\ Len(auth'.requests) > Len(auth.requests)
           => /\ Len(auth'.requests) = Len(auth.requests) + 1
              /\ auth'.requests[Len(auth'.requests)].Authorization =
                    IF auth.access_token \in Tokens
                    THEN "Bearer " \o auth.access_token ELSE ""
        /\ \A i \in 1..Len(auth.requests) :
              /\ auth.requests[i].path = "/auth/login"
              /\ auth.requests[i].phase = "sent"
              /\ auth'.requests[i].phase # "sent"
              => auth'.access_token =
                    IF auth'.requests[i].phase = "ok"
                    THEN auth'.requests[i].token ELSE auth.access_token
        /\ logout => auth'.access_token = "" ]_vars

\* a login that succeeded, a request that carried its token, and a request
\* sent after logout that carried none
C40_Witness ==
    /\ Len(auth.requests) = 3
    /\ auth.requests[1].path = "/auth/login"
    /\ auth.requests[1].phase = "ok" /\ auth.requests[1].token = "t1"
    /\ auth.requests[2].Authorization = "Bearer t1"
    /\ auth.requests[3].Authorization = ""
    /\ auth.access_token = ""

====
